---- MODULE Spec2Model ----
(***************************************************************************)
(* Model of asyncschwab.client.Client: construction, the background token  *)
(* checker (Client.checker), and the scoped lifetime (__aenter__ /         *)
(* __aexit__) built on asyncio.TaskGroup.                                  *)
(*                                                                         *)
(* Scheduling is that of one asyncio event loop: exactly one task runs at  *)
(* a time and a task gives the loop up only at an await.  The foreground   *)
(* flow ("main") and the checker tasks are the tasks.                      *)
(***************************************************************************)
EXTENDS Integers, FiniteSets, Sequences, TLC

\* ---------------------------------------------------------------- bounds
MaxTasks   == 2      \* scope-enters (checker tasks created) explored
MaxChecks  == 3      \* update_tokens() calls explored per checker task
MaxTime    == 60     \* the clock stops advancing here
TickSize   == 30     \* clock granularity
MaxAbsTimeout == 1   \* timeout arguments explored: -MaxAbsTimeout..MaxAbsTimeout

\* ------------------------------------------------------- program constants
CheckInterval == 30  \* await asyncio.sleep(30)

Tasks    == 1..MaxTasks
Timeouts == (0 - MaxAbsTimeout)..MaxAbsTimeout
Outcomes == {"false", "true", "raise"}   \* results of tokens.update_tokens()
Done     == {"cancelled", "failed"}      \* a finished task (supervisor Stopped)
Live     == {"created", "checking", "sleeping", "woken"}

RequestFn == -1      \* self._session = aiohttp.request (use_session=False)
Unset     == 0       \* attribute not assigned yet

VARIABLES
    mainPc,          \* "init","ctorFailed","idle","body","raising","exitWait"
    mainRunning,     \* the foreground task holds the event loop
    mainMustCancel,  \* a CancelledError is pending for the foreground task
    depth,           \* scopes entered and not yet exited
    exc,             \* exception travelling through the scope
    argTimeout,      \* timeout argument of the latest construction attempt
    use_session,     \* use_session argument of the successful construction
    session,         \* self._session
    opened,          \* aiohttp.ClientSession objects constructed (ids 1..opened)
    closed,          \* ids of the sessions that were closed
    tokensBuilt,     \* self.tokens assigned
    streamBuilt,     \* self.stream assigned
    nTasks,          \* tasks created; self._checker_task = self._task_group = nTasks
    tState,          \* per task: "none" or a Live or a Done state
    cancelReq,       \* per task: cancel() was called on it while not done
    deadline,        \* per task: when its asyncio.sleep(30) completes
    tgErrors,        \* per task group: _errors is non-empty
    tgAborting,      \* per task group: _aborting
    tgParentCancel,  \* per task group: _parent_cancel_requested
    now,             \* the clock
    \* history of the run, read by the properties only
    started,         \* per task: update_tokens() calls begun
    finished,        \* per task: update_tokens() calls that returned or raised
    published,       \* per task: sessions it assigned to self._session
    lastOutcome,     \* per task: outcome of its latest finished check
    trues,           \* update_tokens() calls that returned True
    fgCancelled,     \* a CancelledError was thrown into the foreground flow
    bodyRaised,      \* the scope body raised an error of its own
    lastExit,        \* latest __aexit__ since the latest enter: "none","ok","raised"
    yielded,         \* the body awaited something since the latest enter
    enterAt,         \* clock value at the latest enter
    \* the endpoint call in flight
    callHandle,      \* the self._session it was issued on; Unset when none
    callToken,       \* the access token it was issued with
    callAborted      \* history: "none", or why a call in flight was aborted

vars == << mainPc, mainRunning, mainMustCancel, depth, exc, argTimeout,
           use_session, session, opened, closed, tokensBuilt, streamBuilt,
           nTasks, tState, cancelReq, deadline, tgErrors, tgAborting,
           tgParentCancel, now, started, finished, published, lastOutcome,
           trues, fgCancelled, bodyRaised, lastExit, yielded, enterAt,
           callHandle, callToken, callAborted >>

ctorVars  == << argTimeout, use_session, tokensBuilt, streamBuilt >>
tgVars    == << tgErrors, tgAborting, tgParentCancel >>
checkVars == << started, finished, published, lastOutcome, trues >>
callVars  == << callHandle, callToken, callAborted >>

Init ==
    /\ mainPc = "init"
    /\ mainRunning = TRUE
    /\ mainMustCancel = FALSE
    /\ depth = 0
    /\ exc = "none"
    /\ argTimeout = 0
    /\ use_session = FALSE
    /\ session = Unset
    /\ opened = 0
    /\ closed = {}
    /\ tokensBuilt = FALSE
    /\ streamBuilt = FALSE
    /\ nTasks = 0
    /\ tState = [t \in Tasks |-> "none"]
    /\ cancelReq = [t \in Tasks |-> FALSE]
    /\ deadline = [t \in Tasks |-> 0]
    /\ tgErrors = [t \in Tasks |-> FALSE]
    /\ tgAborting = [t \in Tasks |-> FALSE]
    /\ tgParentCancel = [t \in Tasks |-> FALSE]
    /\ now = 0
    /\ started = [t \in Tasks |-> 0]
    /\ finished = [t \in Tasks |-> 0]
    /\ published = [t \in Tasks |-> 0]
    /\ lastOutcome = [t \in Tasks |-> "none"]
    /\ trues = 0
    /\ fgCancelled = FALSE
    /\ bodyRaised = FALSE
    /\ lastExit = "none"
    /\ yielded = FALSE
    /\ enterAt = 0
    /\ callHandle = Unset
    /\ callToken = 0
    /\ callAborted = "none"

\* ------------------------------------------------------------ construction

\* if timeout <= 0: raise Exception(...)
TimeoutRejectedOffByOne(tmo) == tmo < 0
TimeoutRejected(tmo) == tmo <= 0

\* Client.__init__
Construct(tmo, us) ==
    /\ mainRunning
    /\ mainPc \in {"init", "ctorFailed"}
    /\ argTimeout' = tmo
    /\ IF TimeoutRejected(tmo)
       THEN /\ mainPc' = "ctorFailed"
            /\ UNCHANGED << use_session, session, opened, tokensBuilt, streamBuilt >>
       ELSE /\ mainPc' = "idle"
            /\ use_session' = us
            /\ opened' = IF us THEN opened + 1 ELSE opened
            /\ session' = IF us THEN opened + 1 ELSE RequestFn
            /\ tokensBuilt' = TRUE
            /\ streamBuilt' = TRUE
    /\ UNCHANGED << mainRunning, mainMustCancel, depth, exc, closed, nTasks,
                    tState, cancelReq, deadline, tgVars, now, checkVars,
                    fgCancelled, bodyRaised, lastExit, yielded, enterAt >>
    /\ UNCHANGED callVars

\* ------------------------------------------------------------ event loop

\* self.tokens.update_tokens() is a plain call, not awaited: the checker keeps
\* the event loop for the whole refresh check.
UpdateTokensSuspendsAwaited == TRUE
UpdateTokensSuspends == FALSE

\* The loop may hand control to a task: nothing else is running.
LoopFree ==
    /\ ~mainRunning
    /\ UpdateTokensSuspends \/ \A t \in Tasks : tState[t] # "checking"

\* Client.__init__ assigns version, timeout, logger, _session, tokens, stream
\* and never use_session: reading self.use_session raises AttributeError.
HasUseSessionAttr == FALSE

\* self.tokens.access_token: update_tokens() returns True exactly when it has
\* replaced the access token, so the token in force is numbered by the True
\* outcomes so far.
AccessToken == trues

\* ------------------------------------------------------------ the scope

\* Client.__aenter__: a new TaskGroup and a new checker task replace whatever
\* self._task_group and self._checker_task held.  TaskGroup.__aenter__ and
\* create_task do not suspend: the task is only scheduled.
EnterThenAwait ==
    /\ mainRunning
    /\ mainPc \in {"idle", "body"}
    /\ nTasks < MaxTasks
    /\ nTasks' = nTasks + 1
    /\ tState' = [tState EXCEPT ![nTasks + 1] = "created"]
    /\ depth' = depth + 1
    /\ mainPc' = "body"
    /\ lastExit' = "none"
    /\ yielded' = FALSE
    /\ enterAt' = now
    /\ mainRunning' = FALSE
    /\ UNCHANGED << mainMustCancel, exc, ctorVars, session, opened,
                    closed, cancelReq, deadline, tgVars, now, checkVars,
                    fgCancelled, bodyRaised >>
    /\ UNCHANGED callVars

Enter ==
    /\ mainRunning
    /\ mainPc \in {"idle", "body"}
    /\ nTasks < MaxTasks
    /\ nTasks' = nTasks + 1
    /\ tState' = [tState EXCEPT ![nTasks + 1] = "created"]
    /\ depth' = depth + 1
    /\ mainPc' = "body"
    /\ lastExit' = "none"
    /\ yielded' = FALSE
    /\ enterAt' = now
    /\ UNCHANGED << mainRunning, mainMustCancel, exc, ctorVars, session, opened,
                    closed, cancelReq, deadline, tgVars, now, checkVars,
                    fgCancelled, bodyRaised >>
    /\ UNCHANGED callVars

\* The foreground flow awaits something (an endpoint call, a sleep): the event
\* loop runs the other tasks.
Yield ==
    /\ mainRunning
    /\ mainPc \in {"idle", "body"}
    /\ mainRunning' = FALSE
    /\ yielded' = (yielded \/ mainPc = "body")
    /\ UNCHANGED << mainPc, mainMustCancel, depth, exc, ctorVars, session, opened,
                    closed, nTasks, tState, cancelReq, deadline, tgVars, now,
                    checkVars, fgCancelled, bodyRaised, lastExit, enterAt >>
    /\ UNCHANGED callVars

\* The foreground flow is resumed at its await; a pending cancellation (asked
\* for by a TaskGroup whose task failed) is thrown into it there.
Resume ==
    /\ LoopFree
    /\ mainPc \in {"idle", "body"}
    /\ callHandle = Unset
    /\ mainRunning' = TRUE
    /\ mainMustCancel' = FALSE
    /\ fgCancelled' = (fgCancelled \/ mainMustCancel)
    /\ IF mainMustCancel /\ mainPc = "body"
       THEN mainPc' = "raising" /\ exc' = "cancelled"
       ELSE UNCHANGED << mainPc, exc >>
    /\ UNCHANGED << depth, ctorVars, session, opened, closed, nTasks, tState,
                    cancelReq, deadline, tgVars, now, checkVars, bodyRaised,
                    lastExit, yielded, enterAt >>
    /\ UNCHANGED callVars

\* The scope body raises an error of its own.
BodyRaise ==
    /\ mainRunning
    /\ mainPc = "body"
    /\ mainPc' = "raising"
    /\ exc' = "error"
    /\ bodyRaised' = TRUE
    /\ UNCHANGED << mainRunning, mainMustCancel, depth, ctorVars, session, opened,
                    closed, nTasks, tState, cancelReq, deadline, tgVars, now,
                    checkVars, fgCancelled, lastExit, yielded, enterAt >>
    /\ UNCHANGED callVars

\* An endpoint call, e.g. account_linked():
\*   async with self._session.get(url,
\*           headers={'Authorization': f'Bearer {self.tokens.access_token}'},
\*           timeout=self.timeout) as resp:
\* self._session and self.tokens.access_token are both read while the
\* arguments are evaluated, before the first await; the request then runs on
\* that session object.  (On a closed session, or with use_session=False, the
\* call raises at once: that is BodyRaise.)
CallBegin ==
    /\ mainRunning
    /\ mainPc \in {"idle", "body"}
    /\ callHandle = Unset
    /\ session \in (1..opened) \ closed
    /\ callHandle' = session
    /\ callToken' = AccessToken
    /\ mainRunning' = FALSE
    /\ yielded' = (yielded \/ mainPc = "body")
    /\ UNCHANGED << mainPc, mainMustCancel, depth, exc, ctorVars, session, opened,
                    closed, nTasks, tState, cancelReq, deadline, tgVars, now,
                    checkVars, fgCancelled, bodyRaised, lastExit, enterAt,
                    callAborted >>

\* The foreground flow is resumed in the endpoint call: the response has
\* arrived, or the pending CancelledError is thrown into the request.
CallEnd ==
    /\ LoopFree
    /\ mainPc \in {"idle", "body"}
    /\ callHandle # Unset
    /\ callHandle' = Unset
    /\ callToken' = 0
    /\ mainRunning' = TRUE
    /\ mainMustCancel' = FALSE
    /\ fgCancelled' = (fgCancelled \/ mainMustCancel)
    /\ IF mainMustCancel /\ mainPc = "body"
       THEN mainPc' = "raising" /\ exc' = "cancelled"
       ELSE UNCHANGED << mainPc, exc >>
    /\ UNCHANGED << depth, ctorVars, session, opened, closed, nTasks, tState,
                    cancelReq, deadline, tgVars, now, checkVars, bodyRaised,
                    lastExit, yielded, enterAt, callAborted >>

\* The rest of Client.__aexit__ once the task group has no unfinished task:
\*   retval = await self._task_group.__aexit__(...)   raises a group of the
\*       errors, or the CancelledError, when the body ended with an exception
\*       e, a task of the group failed, or the wait was cancelled (cw);
\*   await self._session.close()                      is reached otherwise;
\*   return retval
\* An exception leaving __aexit__ travels on through the enclosing scope.
ExitFinish(e, cw) ==
    LET ct       == nTasks
        tgRaises == e # "none" \/ tgErrors[ct] \/ cw
        noClose  == session = RequestFn     \* a function has no close()
        raises   == tgRaises \/ noClose
        outExc   == IF tgRaises /\ ~tgErrors[ct] /\ e # "error"
                    THEN "cancelled" ELSE "error"
    IN  /\ mainRunning' = TRUE
        /\ depth' = depth - 1
        /\ tgErrors' = [tgErrors EXCEPT ![ct] = @ /\ ~tgRaises]
        /\ closed' = IF raises THEN closed ELSE closed \cup {session}
        /\ lastExit' = IF raises THEN "raised" ELSE "ok"
        /\ IF raises /\ depth > 1
           THEN mainPc' = "raising" /\ exc' = outExc
           ELSE /\ mainPc' = (IF depth > 1 THEN "body" ELSE "idle")
                /\ exc' = "none"

\* self._checker_task.cancel(): a no-op on a task that is done.
CancelTaskOmitted(ct) == cancelReq
CancelTask(ct) == [cancelReq EXCEPT ![ct] = @ \/ tState[ct] \in Live]

\* Client.__aexit__ up to its first suspension:
\*   self._checker_task.cancel()
\*   retval = await self._task_group.__aexit__(exc_type, exc_val, exc_tb)
ExitBegin ==
    /\ mainRunning
    /\ mainPc \in {"body", "raising"}
    /\ LET ct == nTasks
           e  == IF mainPc = "body" THEN "none" ELSE exc
       IN  /\ cancelReq' = [CancelTask(ct) EXCEPT
                            ![ct] = @ \/ (e # "none" /\ tState[ct] \in Live)]
           /\ tgAborting' = [tgAborting EXCEPT ![ct] = @ \/ e # "none"]
           /\ IF tState[ct] \in Live
              THEN /\ mainPc' = "exitWait"
                   /\ mainRunning' = FALSE
                   /\ exc' = e
                   /\ lastExit' = "none"
                   /\ UNCHANGED << depth, tgErrors, closed >>
              ELSE ExitFinish(e, FALSE)
    /\ UNCHANGED << mainMustCancel, ctorVars, session, opened, nTasks, tState,
                    deadline, tgParentCancel, now, checkVars, fgCancelled,
                    bodyRaised, yielded, enterAt >>
    /\ UNCHANGED callVars

\* TaskGroup.__aexit__ is resumed when its task has finished; a cancellation
\* that arrived during the wait is caught there and re-raised at the end.
ExitResume ==
    /\ LoopFree
    /\ mainPc = "exitWait"
    /\ tState[nTasks] \in Done
    /\ mainMustCancel' = FALSE
    /\ fgCancelled' = (fgCancelled \/ mainMustCancel)
    /\ tgAborting' = [tgAborting EXCEPT ![nTasks] = @ \/ mainMustCancel]
    /\ ExitFinish(exc, mainMustCancel)
    /\ UNCHANGED << ctorVars, session, opened, nTasks, tState, cancelReq,
                    deadline, tgParentCancel, now, checkVars, bodyRaised,
                    yielded, enterAt >>
    /\ UNCHANGED callVars

\* ------------------------------------------------------------ the checker

\* await asyncio.sleep(30), and the first step of a task: a task on which
\* cancel() was called gets the CancelledError where it is suspended.
CancelSwallowed(t) == FALSE
CancelDelivered(t) == cancelReq[t]

\* The task ends with an exception that is not a cancellation:
\* TaskGroup._on_task_done records it, aborts the group and cancels the
\* parent task, which is the foreground flow.
TaskFailed(t) ==
    /\ tState' = [tState EXCEPT ![t] = "failed"]
    /\ tgErrors' = [tgErrors EXCEPT ![t] = TRUE]
    /\ IF ~tgAborting[t] /\ ~tgParentCancel[t]
       THEN /\ tgAborting' = [tgAborting EXCEPT ![t] = TRUE]
            /\ tgParentCancel' = [tgParentCancel EXCEPT ![t] = TRUE]
            /\ mainMustCancel' = TRUE
       ELSE UNCHANGED << tgAborting, tgParentCancel, mainMustCancel >>

\* The CancelledError leaves checker(): the loop stops, the task is cancelled.
CheckerCancelled(t) ==
    /\ LoopFree
    /\ tState[t] \in {"created", "sleeping", "woken", "checking"}
    /\ CancelDelivered(t)
    /\ tState' = [tState EXCEPT ![t] = "cancelled"]
    /\ UNCHANGED << mainPc, mainRunning, mainMustCancel, depth, exc, ctorVars,
                    session, opened, closed, nTasks, cancelReq, deadline, tgVars,
                    now, checkVars, fgCancelled, bodyRaised, lastExit, yielded,
                    enterAt >>
    /\ UNCHANGED callVars

\* while True: ... self.tokens.update_tokens() is called, at the first step of
\* the task and each time the task is resumed from its sleep without a
\* CancelledError.
CheckerCall(t) ==
    /\ LoopFree
    /\ \/ tState[t] \in {"created", "woken"}
       \/ tState[t] = "sleeping" /\ cancelReq[t]
    /\ ~CancelDelivered(t)
    /\ started[t] < MaxChecks
    /\ tState' = [tState EXCEPT ![t] = "checking"]
    /\ started' = [started EXCEPT ![t] = @ + 1]
    /\ UNCHANGED << mainPc, mainRunning, mainMustCancel, depth, exc, ctorVars,
                    session, opened, closed, nTasks, cancelReq, deadline, tgVars,
                    now, finished, published, lastOutcome, trues, fgCancelled,
                    bodyRaised, lastExit, yielded, enterAt >>
    /\ UNCHANGED callVars

\* update_tokens() ends with outcome o, then the rest of the loop body up to
\* the sleep:
\*   if self.tokens.update_tokens() and self.use_session:
\*       self._session = aiohttp.ClientSession()
\*   await asyncio.sleep(30)
CheckerReturn(t, o) ==
    /\ ~mainRunning
    /\ tState[t] = "checking"
    /\ ~CancelDelivered(t)
    /\ finished' = [finished EXCEPT ![t] = @ + 1]
    /\ lastOutcome' = [lastOutcome EXCEPT ![t] = o]
    /\ trues' = IF o = "true" THEN trues + 1 ELSE trues
    /\ IF o = "raise" \/ (o = "true" /\ ~HasUseSessionAttr)
       THEN /\ TaskFailed(t)
            /\ UNCHANGED << session, opened, published, deadline >>
       ELSE /\ tState' = [tState EXCEPT ![t] = "sleeping"]
            /\ deadline' = [deadline EXCEPT ![t] = now + CheckInterval]
            /\ IF o = "true" /\ use_session
               THEN /\ opened' = opened + 1
                    /\ session' = opened + 1
                    /\ published' = [published EXCEPT ![t] = @ + 1]
               ELSE UNCHANGED << session, opened, published >>
            /\ UNCHANGED << tgVars, mainMustCancel >>
    /\ callAborted' =
           IF /\ o = "raise" \/ (o = "true" /\ ~HasUseSessionAttr)
              /\ ~tgAborting[t] /\ ~tgParentCancel[t]
              /\ callHandle # Unset
           THEN (IF o = "true" THEN "rotation" ELSE "failure")
           ELSE callAborted
    /\ UNCHANGED << mainPc, mainRunning, depth, exc, ctorVars, closed, nTasks,
                    cancelReq, now, started, fgCancelled, bodyRaised, lastExit,
                    yielded, enterAt, callHandle, callToken >>

\* The 30 time units of the sleep have passed: the task is scheduled again.
SleepDoneEarly(t) ==
    /\ LoopFree
    /\ tState[t] = "sleeping"
    /\ ~cancelReq[t]
    /\ tState' = [tState EXCEPT ![t] = "woken"]
    /\ UNCHANGED << mainPc, mainRunning, mainMustCancel, depth, exc, ctorVars,
                    session, opened, closed, nTasks, cancelReq, deadline, tgVars,
                    now, checkVars, fgCancelled, bodyRaised, lastExit, yielded,
                    enterAt >>
    /\ UNCHANGED callVars

SleepDone(t) ==
    /\ LoopFree
    /\ tState[t] = "sleeping"
    /\ ~cancelReq[t]
    /\ now >= deadline[t]
    /\ tState' = [tState EXCEPT ![t] = "woken"]
    /\ UNCHANGED << mainPc, mainRunning, mainMustCancel, depth, exc, ctorVars,
                    session, opened, closed, nTasks, cancelReq, deadline, tgVars,
                    now, checkVars, fgCancelled, bodyRaised, lastExit, yielded,
                    enterAt >>
    /\ UNCHANGED callVars

\* Time passes.
Tick ==
    /\ now + TickSize <= MaxTime
    /\ now' = now + TickSize
    /\ UNCHANGED << mainPc, mainRunning, mainMustCancel, depth, exc, ctorVars,
                    session, opened, closed, nTasks, tState, cancelReq, deadline,
                    tgVars, checkVars, fgCancelled, bodyRaised, lastExit, yielded,
                    enterAt >>
    /\ UNCHANGED callVars

Next ==
    \/ \E tmo \in Timeouts, us \in BOOLEAN : Construct(tmo, us)
    \/ Enter
    \/ Yield
    \/ Resume
    \/ BodyRaise
    \/ CallBegin
    \/ CallEnd
    \/ ExitBegin
    \/ ExitResume
    \/ \E t \in Tasks : CheckerCancelled(t)
    \/ \E t \in Tasks : CheckerCall(t)
    \/ \E t \in Tasks, o \in Outcomes : CheckerReturn(t, o)
    \/ \E t \in Tasks : SleepDone(t)
    \/ Tick

Spec == Init /\ [][Next]_vars

\* The event loop runs every callback that is ready: a task holding the loop in
\* update_tokens() gets its result, a task with a CancelledError pending gets
\* it, and TaskGroup.__aexit__ is resumed once its task is done.
FairSpec ==
    /\ Spec
    /\ WF_vars(ExitResume)
    /\ \A t \in Tasks : WF_vars(CheckerCancelled(t))
    /\ \A t \in Tasks : WF_vars(\E o \in Outcomes : CheckerReturn(t, o))

\* ------------------------------------------------------------ helpers
Stopped(t) == tState[t] \in Done
Running(t) == tState[t] \in Live /\ ~cancelReq[t]
CancelRequested(t) == tState[t] \in Live /\ cancelReq[t]

TypeOK ==
    /\ mainPc \in {"init", "ctorFailed", "idle", "body", "raising", "exitWait"}
    /\ depth \in 0..MaxTasks
    /\ nTasks \in 0..MaxTasks
    /\ session \in {Unset, RequestFn} \cup 1..opened
    /\ closed \subseteq 1..opened
    /\ \A t \in Tasks : tState[t] \in {"none"} \cup Live \cup Done
    /\ \A t \in Tasks : finished[t] <= started[t] /\ started[t] <= MaxChecks
    /\ mainRunning => ~mainMustCancel
    /\ callHandle \in {Unset} \cup 1..opened
    /\ callHandle # Unset => ~mainRunning /\ mainPc \in {"idle", "body"}

\* ------------------------------------------------------------ properties

Constructed == mainPc \notin {"init", "ctorFailed"}

\* C1: the published handle is replaced by a fresh one exactly once per
\* refresh outcome true and never on false: with the initial handle numbered
\* 1, the current handle is always 1 + (number of true outcomes so far).
C1_HandleChangesOncePerTrue ==
    (Constructed /\ use_session) => session = 1 + trues

\* C2: whenever scope-exit has finished, normally or with an error raised in
\* the scope, the supervisor it cancelled is Stopped and the current handle
\* has been closed.
C2_ExitAlwaysReleases ==
    (use_session /\ lastExit # "none") =>
        (Stopped(nTasks) /\ session \in closed)

\* C3: a supervisor whose latest refresh check raised, and which was not
\* cancelled, has not terminated: it is still Running.
C3_LoopSurvivesRefreshFailure ==
    \A t \in Tasks :
        (lastOutcome[t] = "raise" /\ ~cancelReq[t]) => Running(t)

\* C4: a failure inside the supervisor loop never reaches the caller: no
\* CancelledError is thrown into the foreground flow, and scope-exit does not
\* raise unless the scope body raised an error of its own.
C4_LoopFailureStaysInside ==
    /\ ~fgCancelled
    /\ (use_session /\ ~bodyRaised) => lastExit # "raised"

\* C5: at any time at most one supervisor task of the instance is not yet
\* Stopped, whatever the sequence of scope-enters and scope-exits.
C5_AtMostOneSupervisor ==
    Cardinality({t \in Tasks : tState[t] \in Live}) <= 1

\* C6: a supervisor cancelled while it is suspended in its interval sleep
\* performs no further refresh check and no further publish: from the moment
\* the cancellation is requested on the sleeping task, and ever after it has
\* stopped, its check and publish counts do not change and it does not leave
\* the sleep except to stop.
C6_CancelInSleepStopsLoop ==
    [][\A t \in Tasks :
          ((tState[t] \in {"sleeping", "woken"} /\ cancelReq[t])
               \/ tState[t] = "cancelled")
          => /\ started'[t] = started[t]
             /\ published'[t] = published[t]
             /\ tState'[t] \in {tState[t], "cancelled"}]_vars

\* C6 witness: a supervisor that completed a check, went to sleep and was
\* stopped there by the cancellation.
C6_Witness ==
    \E t \in Tasks : tState[t] = "cancelled" /\ finished[t] = 1

\* C7: a cancellation never aborts a refresh check: no cancellation is ever
\* requested on a supervisor that is inside update_tokens(), and a Stopped
\* supervisor has finished every refresh check it started.
C7_RefreshNeverAborted ==
    \A t \in Tasks :
        /\ tState[t] = "checking" => ~cancelReq[t]
        /\ Stopped(t) => finished[t] = started[t]

\* C7 witness: a supervisor stopped by cancellation after several complete
\* refresh checks.
C7_Witness ==
    \E t \in Tasks :
        tState[t] = "cancelled" /\ started[t] >= 2 /\ finished[t] = started[t]

\* The step in which a scope-exit finishes.
ExitFinishes == lastExit = "none" /\ lastExit' \in {"ok", "raised"}

C9_ReleaseAfterStopped ==
    [][closed' # closed => \A t \in Tasks : tState'[t] \notin Live]_vars

\* C10: a construction with timeout <= 0 fails and allocates nothing: no
\* session is opened, self._session, self.tokens and self.stream stay
\* unassigned, and there is no facade to enter.
C10_BadTimeoutAllocatesNothing ==
    (mainPc # "init" /\ argTimeout <= 0) =>
        /\ mainPc = "ctorFailed"
        /\ opened = 0
        /\ session = Unset
        /\ ~tokensBuilt
        /\ ~streamBuilt
        /\ nTasks = 0

\* C10 witness: a construction with timeout = 0 was attempted and failed.
C10_Witness ==
    mainPc = "ctorFailed" /\ argTimeout = 0 /\ opened = 0

\* C11: no endpoint call in flight is aborted by a rotation: a refresh check
\* that returns true while a call is in flight leaves the call running on the
\* handle it took at its start.
C11_NoCallAbortedByRotation ==
    callAborted # "rotation"

\* C12: once scope-exit has completed and no scope is open, every handle the
\* facade ever created has been closed; stated for runs in which at least one
\* refresh check rotated the token.
C12_AllHandlesReleasedAtTeardown ==
    (use_session /\ depth = 0 /\ lastExit # "none" /\ trues >= 1) =>
        \A h \in 1..opened : h \in closed

\* C13 as stated: the supervisor started by the latest scope-enter makes no
\* refresh check until one full interval has elapsed since that scope-enter.
C13_SleepBeforeFirstCheck ==
    (nTasks >= 1 /\ started[nTasks] >= 1) => now - enterAt >= CheckInterval

\* C13 amended: in every cycle the refresh check comes before the interval
\* sleep.  A supervisor's first check is made at its first step, with no sleep
\* before it; every later check is made on waking from a sleep whose 30 units
\* have elapsed; and a sleep is only ever started at the end of a check, so
\* exactly one interval sleep lies between two consecutive checks.
C13_CheckThenSleep ==
    [][\A t \in Tasks :
          /\ started'[t] # started[t] =>
                /\ started'[t] = started[t] + 1
                /\ \/ tState[t] = "created" /\ started[t] = 0
                   \/ tState[t] = "woken" /\ started[t] >= 1
                                         /\ now >= deadline[t]
          /\ (tState'[t] = "woken" /\ tState[t] # "woken") =>
                (tState[t] = "sleeping" /\ now >= deadline[t])
          /\ (tState'[t] = "sleeping" /\ tState[t] # "sleeping") =>
                (tState[t] = "checking" /\ deadline'[t] = now + CheckInterval)
      ]_vars

\* C13 witness: a supervisor inside its second refresh check, one interval
\* after its first.
C13_Witness ==
    \E t \in Tasks :
        tState[t] = "checking" /\ started[t] = 2 /\ now >= CheckInterval

\* C14: when a refresh check returned true and no new handle could be
\* published, the current handle is still the previous one and the supervisor
\* is still Running.
C14_RotationFailureKeepsLoop ==
    \A t \in Tasks :
        (use_session /\ lastOutcome[t] = "true" /\ published[t] = 0
             /\ ~cancelReq[t])
        => (session = 1 /\ Running(t))

\* C15: after scope-exit has completed and no scope is open, the facade is
\* inert: no step starts a refresh check or replaces the current handle.
C15_InertAfterExit ==
    [][(mainPc = "idle" /\ depth = 0 /\ lastExit # "none")
        => (started' = started /\ session' = session)]_vars

\* C16: scope-exit terminates: whenever __aexit__ is waiting for the
\* supervisor, the supervisor eventually reaches Stopped and __aexit__
\* finishes, by returning or by raising.
C16_ExitTerminates ==
    (mainPc = "exitWait") ~> (lastExit # "none" /\ Stopped(nTasks))

\* C16 witness: a scope-exit that found its supervisor asleep after a refresh
\* check, waited for it and finished.
C16_Witness ==
    /\ mainPc = "idle" /\ depth = 0 /\ lastExit # "none"
    /\ tState[nTasks] = "cancelled" /\ finished[nTasks] >= 1

\* C17: every endpoint call is issued with a handle and a token of the same
\* rotation: the handle published by the k-th rotation (numbered 1 + k) goes
\* with the token of the k-th rotation.
C17_HandleAndTokenPaired ==
    callHandle # Unset => callHandle = 1 + callToken

====
